---- MODULE Spec2Model ----
(***************************************************************************)
(* Model of the RAG chatbot: the session object RAGServiceModern           *)
(* (src/lanchain_chotbot.py) and the FastAPI handlers that drive it        *)
(* (src/app.py).                                                           *)
(*                                                                         *)
(* Scheduling.  Every handler of app.py is a coroutine (async def) that    *)
(* calls the synchronous methods of the one module-level rag_service.  A   *)
(* coroutine runs on the single event-loop thread and gives the thread up  *)
(* only at an await; the only await in the handlers is                     *)
(* `await file.close()` in the finally clause of upload_pdf.  The variable *)
(* `running` is the request that owns the thread (0: the loop is free);    *)
(* several requests can be in flight, one of them runs.  Methods with no   *)
(* route in app.py (clear_session, load_existing_vectorstore, get_status)  *)
(* are called the same way, from a coroutine without an await.             *)
(* `last` records the call that finished its run on the thread last: its   *)
(* input, the history and the pipeline it started from, and its result.    *)
(* An ingest or load also notes the index, retriever and directory it      *)
(* started from (s0), and a call the step of it that raised (fault).       *)
(*                                                                         *)
(* Optional values: None is << >>, a present value x is <<x>>.             *)
(* Text is a sequence of characters.                                       *)
(***************************************************************************)
EXTENDS Integers, Sequences, FiniteSets, TLC

\* ---------------------------------------------------------------- bounds
NumReqs == 2
MaxAsks == 2

Reqs == 1..NumReqs

\* ------------------------------------------------------------- constants
SearchK == 3

\* ---------------------------------------------------------------- inputs
\* Uploads: a file name and the pages PyPDFLoader yields from the file.
Uploads == { [name |-> "n.txt", doc |-> <<1>>],
             [name |-> "a.pdf", doc |-> << >>],
             [name |-> "a.pdf", doc |-> <<1>>],
             [name |-> "a.pdf", doc |-> <<2, 3, 4, 5>>] }

Questions == { << >>, <<" ">>, <<" ", "b">> }

Answers == { <<"x">> }

NoneV == << >>

Some(x) == <<x>>

Get(o) == o[1]

\* ------------------------------------------------------------ pure parts
IsSpace(c) == c = " "

RECURSIVE LStrip(_)
LStrip(s) == IF s = << >> THEN s
             ELSE IF IsSpace(Head(s)) THEN LStrip(Tail(s)) ELSE s

RECURSIVE RStrip(_)
RStrip(s) == IF s = << >> THEN s
             ELSE IF IsSpace(s[Len(s)]) THEN RStrip(SubSeq(s, 1, Len(s) - 1)) ELSE s

\* str.strip()
Strip(s) == RStrip(LStrip(s))

\* file.filename.endswith('.pdf')
EndsWithPdf(name) == name \in { "a.pdf" }

\* Distance of a chunk's embedding from the query's embedding: a fixed
\* (deterministic) function of the two texts.
Distance(q, c) == IF c >= Len(q) THEN c - Len(q) ELSE Len(q) - c

RECURSIVE Ranked(_, _)
Ranked(cs, q) ==
    IF cs = { } THEN << >>
    ELSE LET best == CHOOSE c \in cs :
                       \A d \in cs : Distance(q, c) < Distance(q, d)
                                     \/ (Distance(q, c) = Distance(q, d) /\ c <= d)
         IN  <<best>> \o Ranked(cs \ {best}, q)

Range(s) == { s[i] : i \in 1..Len(s) }

Min(a, b) == IF a < b THEN a ELSE b

\* FAISS similarity search behind as_retriever(search_kwargs={"k": 3})
similarity_search(index, q) ==
    LET r == Ranked(Range(index), q) IN SubSeq(r, 1, Min(SearchK, Len(r)))

\* format_docs: the page contents joined by a blank line, kept as the
\* ordered sequence of chunks.
format_docs(docs) == docs

HumanMessage(text) == [type |-> "human", content |-> text]

AIMessage(text) == [type |-> "ai", content |-> text]

\* ----------------------------------------------------------------- state
VARIABLES
    vectorstore,        \* self.vectorstore: None or the index (its chunks)
    retriever,          \* self.retriever: None or the index it searches
    rag_chain,          \* self.rag_chain: None or [retriever |-> index]
    chat_history,       \* self.chat_history.messages
    vector_db,          \* the directory self.vector_db_path on disk
    uploaded_pdfs,      \* the files present in UPLOAD_DIR
    current_pdf_path,   \* global current_pdf_path: None or a file name
    running,            \* the request running on the event loop, or 0
    req,                \* the requests in flight
    last                \* the call that finished last

vars == <<vectorstore, retriever, rag_chain, chat_history, vector_db,
          uploaded_pdfs, current_pdf_path, running, req, last>>

session == <<vectorstore, retriever, rag_chain, chat_history>>

IdleReq == [pc |-> "idle", kind |-> "", name |-> "", doc |-> << >>, q |-> << >>,
            h0 |-> << >>, c0 |-> << >>, answer |-> << >>, prompt |-> << >>,
            touched |-> { }, code |-> 0, fault |-> "",
            s0 |-> << >>, f0 |-> { }]

NoCall == [kind |-> "", name |-> "", doc |-> << >>, q |-> << >>,
           h0 |-> << >>, c0 |-> << >>, touched |-> { }, prompt |-> << >>,
           after |-> [kind |-> "", status |-> "", ready |-> FALSE, turns |-> 0,
                      doc |-> << >>],
           code |-> 0, status |-> "", message |-> "",
           answer |-> << >>, report |-> << >>, fault |-> "",
           s0 |-> << >>, f0 |-> { }]

EmptyDir == [exists |-> TRUE, state |-> "empty", index |-> << >>]

PersistedDir(index) == [exists |-> TRUE, state |-> "index", index |-> index]

CorruptDir == [exists |-> TRUE, state |-> "corrupt", index |-> << >>]

AbsentDir == [exists |-> FALSE, state |-> "empty", index |-> << >>]

\* RAGServiceModern.__init__ and the module level of app.py.  The directory
\* vector_db is created when missing and otherwise kept as an earlier run of
\* the process left it.
Init ==
    /\ vectorstore = NoneV
    /\ retriever = NoneV
    /\ rag_chain = NoneV
    /\ chat_history = << >>
    /\ vector_db \in { EmptyDir, PersistedDir(<<1>>) }
    /\ uploaded_pdfs = { }
    /\ current_pdf_path = NoneV
    /\ running = 0
    /\ req = [r \in Reqs |-> IdleReq]
    /\ last = NoCall

\* --------------------------------------------------------- request plumbing
\* A request that has arrived waits for the thread until the event loop
\* starts its handler.  A waiting request touches nothing, so only the
\* waiting of POST /ask is kept in the state; the other calls are taken up
\* at the moment the loop starts them.
Waits == { "ask" }

\* A new request takes the lowest free slot (the slots are interchangeable).
FreeSlot(r) == req[r].pc = "idle" /\ \A o \in 1..(r - 1) : req[o].pc # "idle"

Arrive(r) ==
    /\ FreeSlot(r)
    /\ \E k \in Waits :
          req' = [req EXCEPT ![r] = [IdleReq EXCEPT !.pc = "ready", !.kind = k]]
    /\ UNCHANGED <<session, vector_db, uploaded_pdfs, current_pdf_path, running, last>>

\* The event loop is free and starts the handler of request r.
CanStart(r, k) ==
    /\ running = 0
    /\ IF k \in Waits THEN req[r].pc = "ready" /\ req[r].kind = k
                     ELSE FreeSlot(r)

\* The locals of a started call; it notes the history and pipeline it found,
\* an ingest or a load also the index, retriever and directory.
Started(kind, name, doc, q) ==
    [IdleReq EXCEPT !.pc = "start", !.kind = kind, !.name = name, !.doc = doc,
                    !.q = q, !.h0 = chat_history, !.c0 = rag_chain,
                    !.s0 = IF kind \in { "upload", "load" }
                           THEN <<vectorstore, retriever, vector_db>> ELSE << >>]

\* What a later read keeps of the call that finished before it.
Summary(c) == [kind |-> c.kind, status |-> c.status, ready |-> c.c0 # NoneV,
               turns |-> Len(c.h0), doc |-> << >>]

\* What a load keeps of the call that finished before it: also its document.
Before(c) == [Summary(c) EXCEPT !.doc = c.doc]

\* The record of a finished call; s0 and f0 are kept of a call that failed.
Result(c, code, status, message) ==
    [NoCall EXCEPT !.kind = c.kind, !.name = c.name, !.doc = c.doc, !.q = c.q,
                   !.h0 = c.h0, !.c0 = c.c0, !.touched = c.touched,
                   !.prompt = c.prompt, !.code = code, !.status = status,
                   !.message = message, !.fault = c.fault,
                   !.s0 = IF status = "error" THEN c.s0 ELSE << >>,
                   !.f0 = IF status = "error" THEN c.f0 ELSE { }]

\* A step of call r raises: the call keeps which one.
Raise(rq, r, fault) == [rq EXCEPT ![r].fault = fault]

\* ------------------------------------------------------------- POST /ask
\* QuestionRequest.question: Field(..., min_length=1)
ValidRequest(q) == Len(q) >= 1

\* Variant: the guard without the strip.
EmptyQuestion_NoStrip(q) == q = << >>

\* not request.question or request.question.strip() == ""
EmptyQuestion(q) == q = << >> \/ Strip(q) = << >>

\* if result["status"] == "error": raise HTTPException(status_code=400, ...)
AskStatusCode(status) == IF status = "error" THEN 400 ELSE 200

\* The event loop starts the handler: request validation, then the guard of
\* the handler, then the call of rag_service.ask_question.
ask_question_handler(r) ==
    /\ CanStart(r, "ask")
    /\ \E q \in Questions :
         LET c == Started("ask", "", << >>, q)
         IN  IF ~ValidRequest(q)
             THEN /\ last' = Result(c, 422, "error", "string_too_short")
                  /\ req' = [req EXCEPT ![r] = IdleReq]
                  /\ UNCHANGED running
             ELSE IF EmptyQuestion(q)
             THEN /\ last' = Result(c, 400, "error", "Question cannot be empty")
                  /\ req' = [req EXCEPT ![r] = IdleReq]
                  /\ UNCHANGED running
             ELSE /\ Len(chat_history) + 2 <= 2 * MaxAsks
                  /\ req' = [req EXCEPT ![r] = [c EXCEPT !.pc = "ask_check"]]
                  /\ running' = r
                  /\ UNCHANGED last
    /\ UNCHANGED <<session, vector_db, uploaded_pdfs, current_pdf_path>>

\* Variant: the guard looks at the index instead of the chain.
NoPipeline_Index == vectorstore = NoneV

\* if self.rag_chain is None
NoPipeline == rag_chain = NoneV

\* RAGServiceModern.ask_question, the guard
ask_check(r) ==
    /\ running = r /\ req[r].pc = "ask_check"
    /\ IF NoPipeline
       THEN /\ last' = Result(req[r], AskStatusCode("error"), "error",
                              "Please upload and process a PDF first")
            /\ req' = [req EXCEPT ![r] = IdleReq]
            /\ running' = 0
       ELSE /\ req' = [req EXCEPT ![r].pc = "ask_invoke"]
            /\ UNCHANGED <<running, last>>
    /\ UNCHANGED <<session, vector_db, uploaded_pdfs, current_pdf_path>>

\* Variant: the history of the prompt already holds the current question.
Prompt_WithQuestion(chain, q) ==
    [context |-> format_docs(similarity_search(chain.retriever, q)),
     chat_history |-> Append(chat_history, HumanMessage(q)),
     question |-> q]

\* The prompt the chain assembles: the retrieved context, the messages of
\* self.chat_history at the time of the call, the question.
Prompt(chain, q) ==
    [context |-> format_docs(similarity_search(chain.retriever, q)),
     chat_history |-> chat_history,
     question |-> q]

\* except Exception as e: the error result of ask_question
AskFailed(r, touched, fault) ==
    /\ last' = Result([req[r] EXCEPT !.touched = touched, !.fault = fault],
                      AskStatusCode("error"),
                      "error", "Error processing question")
    /\ req' = [req EXCEPT ![r] = IdleReq]
    /\ running' = 0

\* Variant: the question is recorded before the chain is invoked.
ask_invoke_RecordsFirst(r) ==
    /\ running = r /\ req[r].pc = "ask_invoke"
    /\ chat_history' = Append(chat_history, HumanMessage(req[r].q))
    /\ \/ /\ rag_chain = NoneV
          /\ AskFailed(r, { }, "no_chain")
       \/ /\ rag_chain # NoneV
          /\ AskFailed(r, { "retriever", "history" }, "retrieval")
       \/ /\ rag_chain # NoneV
          /\ AskFailed(r, { "retriever", "history", "llm" }, "generation")
       \/ /\ rag_chain # NoneV
          /\ \E a \in Answers :
                req' = [req EXCEPT ![r].pc = "ask_add_ai",
                                   ![r].touched = { "retriever", "history", "llm" },
                                   ![r].answer = a,
                                   ![r].prompt = Some(Prompt(Get(rag_chain), req[r].q))]
          /\ UNCHANGED <<running, last>>
    /\ UNCHANGED <<vectorstore, retriever, rag_chain, vector_db, uploaded_pdfs,
                   current_pdf_path>>

\* answer = self.rag_chain.invoke(question): a chain that is None, the
\* retrieval and the generation backend can each raise.
ask_invoke(r) ==
    /\ running = r /\ req[r].pc = "ask_invoke"
    /\ \/ /\ rag_chain = NoneV
          /\ AskFailed(r, { }, "no_chain")
       \/ /\ rag_chain # NoneV
          /\ AskFailed(r, { "retriever", "history" }, "retrieval")
       \/ /\ rag_chain # NoneV
          /\ AskFailed(r, { "retriever", "history", "llm" }, "generation")
       \/ /\ rag_chain # NoneV
          /\ \E a \in Answers :
                req' = [req EXCEPT ![r].pc = "ask_add_user",
                                   ![r].touched = { "retriever", "history", "llm" },
                                   ![r].answer = a,
                                   ![r].prompt = Some(Prompt(Get(rag_chain), req[r].q))]
          /\ UNCHANGED <<running, last>>
    /\ UNCHANGED <<session, vector_db, uploaded_pdfs, current_pdf_path>>

\* Variant: the chain is awaited: the call gives up the thread when it has
\* the answer and records the question when it gets the thread back.
ask_add_user_AfterAwait(r) ==
    /\ req[r].pc = "ask_add_user"
    /\ \/ /\ running = r
          /\ running' = 0
          /\ UNCHANGED <<chat_history, req>>
       \/ /\ running = 0
          /\ running' = r
          /\ chat_history' = Append(chat_history, HumanMessage(req[r].q))
          /\ req' = [req EXCEPT ![r].pc = "ask_add_ai"]
    /\ UNCHANGED <<vectorstore, retriever, rag_chain, vector_db, uploaded_pdfs,
                   current_pdf_path, last>>

\* Variant: the thread is given up between the two appends.
ask_add_user_Yields(r) ==
    /\ running = r /\ req[r].pc = "ask_add_user"
    /\ chat_history' = Append(chat_history, HumanMessage(req[r].q))
    /\ req' = [req EXCEPT ![r].pc = "ask_add_ai"]
    /\ running' = 0
    /\ UNCHANGED <<vectorstore, retriever, rag_chain, vector_db, uploaded_pdfs,
                   current_pdf_path, last>>

\* Variant: the stripped question is recorded.
ask_add_user_Stripped(r) ==
    /\ running = r /\ req[r].pc = "ask_add_user"
    /\ chat_history' = Append(chat_history, HumanMessage(Strip(req[r].q)))
    /\ req' = [req EXCEPT ![r].pc = "ask_add_ai"]
    /\ UNCHANGED <<vectorstore, retriever, rag_chain, vector_db, uploaded_pdfs,
                   current_pdf_path, running, last>>

\* self.chat_history.add_user_message(question)
ask_add_user(r) ==
    /\ running = r /\ req[r].pc = "ask_add_user"
    /\ chat_history' = Append(chat_history, HumanMessage(req[r].q))
    /\ req' = [req EXCEPT ![r].pc = "ask_add_ai"]
    /\ UNCHANGED <<vectorstore, retriever, rag_chain, vector_db, uploaded_pdfs,
                   current_pdf_path, running, last>>

\* self.chat_history.add_ai_message(answer), the success result and the
\* QuestionResponse of the handler
ask_add_ai(r) ==
    /\ running = r /\ req[r].pc = "ask_add_ai"
    /\ chat_history' = Append(chat_history, AIMessage(req[r].answer))
    /\ last' = [Result(req[r], AskStatusCode("success"), "success", "")
                  EXCEPT !.answer = req[r].answer]
    /\ req' = [req EXCEPT ![r] = IdleReq]
    /\ running' = 0
    /\ UNCHANGED <<vectorstore, retriever, rag_chain, vector_db, uploaded_pdfs,
                   current_pdf_path>>

\* ----------------------------------------------------- GET /chat-history
\* RAGServiceModern.get_chat_history and the ChatHistoryResponse
get_chat_history(r) ==
    /\ CanStart(r, "history")
    /\ last' = [Result(Started("history", "", << >>, << >>), 200, "success", "")
                  EXCEPT !.report = chat_history, !.after = Summary(last)]
    /\ req' = [req EXCEPT ![r] = IdleReq]
    /\ UNCHANGED <<session, vector_db, uploaded_pdfs, current_pdf_path, running>>

\* ------------------------------------------------------------ get_status
Status == [vectorstore_loaded |-> vectorstore # NoneV,
           retriever_ready |-> retriever # NoneV,
           qa_chain_ready |-> rag_chain # NoneV,
           chat_history_length |-> Len(chat_history)]

get_status(r) ==
    /\ CanStart(r, "status")
    /\ last' = [Result(Started("status", "", << >>, << >>), 0, "", "")
                  EXCEPT !.report = <<Status>>, !.after = Summary(last)]
    /\ req' = [req EXCEPT ![r] = IdleReq]
    /\ UNCHANGED <<session, vector_db, uploaded_pdfs, current_pdf_path, running>>

\* ------------------------------------------------------ POST /upload-pdf
\* The handler starts: the file-name check; a .pdf enters the try.
upload_pdf(r) ==
    /\ CanStart(r, "upload")
    /\ \E u \in Uploads :
         LET c == Started("upload", u.name, u.doc, << >>)
         IN  IF ~EndsWithPdf(u.name)
             THEN /\ last' = Result(c, 400, "error", "Only PDF files are allowed")
                  /\ req' = [req EXCEPT ![r] = IdleReq]
                  /\ UNCHANGED running
             ELSE /\ req' = [req EXCEPT ![r] = [c EXCEPT !.pc = "up_open"]]
                  /\ running' = r
                  /\ UNCHANGED last
    /\ UNCHANGED <<session, vector_db, uploaded_pdfs, current_pdf_path>>

\* with open(file_path, "wb") as buffer: the open raises (the call notes the
\* files there are, f0: it has written none), or creates the file
up_open(r) ==
    /\ running = r /\ req[r].pc = "up_open"
    /\ \/ /\ req' = [Raise(req, r, "open") EXCEPT ![r].pc = "up_except",
                                                  ![r].f0 = uploaded_pdfs]
          /\ UNCHANGED uploaded_pdfs
       \/ /\ uploaded_pdfs' = uploaded_pdfs \cup { req[r].name }
          /\ req' = [req EXCEPT ![r].pc = "up_copy", ![r].touched = { "file" }]
    /\ UNCHANGED <<session, vector_db, current_pdf_path, running, last>>

\* Variant: the copy awaits, giving up the thread before process_pdf.
up_copy_Yields(r) ==
    /\ running = r /\ req[r].pc = "up_copy"
    /\ current_pdf_path' = Some(req[r].name)
    /\ req' = [req EXCEPT ![r].pc = "pp_load"]
    /\ running' = 0
    /\ UNCHANGED <<session, vector_db, uploaded_pdfs, last>>

\* shutil.copyfileobj(file.file, buffer) raises (the partial file stays), or
\* completes and current_pdf_path = file_path
up_copy(r) ==
    /\ running = r /\ req[r].pc = "up_copy"
    /\ \/ /\ req' = [Raise(req, r, "copy") EXCEPT ![r].pc = "up_except"]
          /\ UNCHANGED current_pdf_path
       \/ /\ current_pdf_path' = Some(req[r].name)
          /\ req' = [req EXCEPT ![r].pc = "pp_load"]
    /\ UNCHANGED <<session, vector_db, uploaded_pdfs, running, last>>

\* Variant: the exception leaves process_pdf and reaches the handler.
ProcessFailed_Escapes(rq, r) == [rq EXCEPT ![r].pc = "up_except"]

\* except Exception as e: process_pdf returns {"status": "error", ...}
ProcessFailed(rq, r) == [rq EXCEPT ![r].pc = "up_error"]

\* loader = PyPDFLoader(pdf_path); documents = loader.load()
pp_load(r) ==
    /\ running = r /\ req[r].pc = "pp_load"
    /\ \/ req' = ProcessFailed(Raise(req, r, "pdf_load"), r)
       \/ req' = [req EXCEPT ![r].pc = "pp_build"]
    /\ UNCHANGED <<session, vector_db, uploaded_pdfs, current_pdf_path, running, last>>

\* Variant: an index is built from any list of documents, also none.
CanBuild_Any(documents) == TRUE

\* FAISS.from_documents raises on an empty list of documents (there is no
\* embedding to size the index by) and when the embedding model fails.
CanBuild(documents) == documents # << >>

\* Variant: retriever and chain are set up as soon as the index is built,
\* before it is saved.
pp_build_Early(r) ==
    /\ running = r /\ req[r].pc = "pp_build"
    /\ \/ /\ req' = [req EXCEPT ![r].pc = "up_error"]
          /\ UNCHANGED <<vectorstore, retriever, rag_chain>>
       \/ /\ req[r].doc # << >>
          /\ vectorstore' = Some(req[r].doc)
          /\ retriever' = Some(req[r].doc)
          /\ rag_chain' = Some([retriever |-> req[r].doc])
          /\ req' = [req EXCEPT ![r].pc = "pp_save"]
    /\ UNCHANGED <<chat_history, vector_db, uploaded_pdfs, current_pdf_path,
                   running, last>>

\* self.vectorstore = FAISS.from_documents(documents, self.embedding_model)
pp_build(r) ==
    /\ running = r /\ req[r].pc = "pp_build"
    /\ \/ /\ req' = ProcessFailed(Raise(req, r, "build"), r)
          /\ UNCHANGED vectorstore
       \/ /\ CanBuild(req[r].doc)
          /\ vectorstore' = Some(req[r].doc)
          /\ req' = [req EXCEPT ![r].pc = "pp_save"]
    /\ UNCHANGED <<retriever, rag_chain, chat_history, vector_db, uploaded_pdfs,
                   current_pdf_path, running, last>>

\* Variant: an index already in the directory is not overwritten.
pp_save_KeepsExisting(r) ==
    /\ running = r /\ req[r].pc = "pp_save"
    /\ \/ /\ vector_db' \in { vector_db, CorruptDir }
          /\ req' = ProcessFailed(Raise(req, r, "persist"), r)
       \/ /\ vector_db' = IF vector_db.state = "index" THEN vector_db
                           ELSE PersistedDir(Get(vectorstore))
          /\ req' = [req EXCEPT ![r].pc = "pp_retriever"]
    /\ UNCHANGED <<session, uploaded_pdfs, current_pdf_path, running, last>>

\* self.vectorstore.save_local(self.vector_db_path): a failed write leaves
\* the directory as it was or with a partly written index.
pp_save(r) ==
    /\ running = r /\ req[r].pc = "pp_save"
    /\ \/ /\ vector_db' \in { vector_db, CorruptDir }
          /\ req' = ProcessFailed(Raise(req, r, "persist"), r)
       \/ /\ vector_db' = PersistedDir(Get(vectorstore))
          /\ req' = [req EXCEPT ![r].pc = "pp_retriever"]
    /\ UNCHANGED <<session, uploaded_pdfs, current_pdf_path, running, last>>

\* self.vectorstore.as_retriever(search_kwargs={"k": 3})
as_retriever(store) == Some(Get(store))

\* self.retriever = self.vectorstore.as_retriever(...)
pp_retriever(r) ==
    /\ running = r /\ req[r].pc = "pp_retriever"
    /\ retriever' = as_retriever(vectorstore)
    /\ req' = [req EXCEPT ![r].pc = "pp_chain"]
    /\ UNCHANGED <<vectorstore, rag_chain, chat_history, vector_db, uploaded_pdfs,
                   current_pdf_path, running, last>>

\* _create_rag_chain: nothing without a retriever; else a chain bound to the
\* retriever object of this moment (the history is read at each invoke).
create_rag_chain(ret, chain) ==
    IF ret = NoneV THEN chain ELSE Some([retriever |-> Get(ret)])

\* await file.close() in the finally clause: the handler has its response
\* (or HTTPException) and gives up the thread until the file is closed.
AwaitClose(r, code, status, message) ==
    /\ last' = Result(req[r], code, status, message)
    /\ req' = [req EXCEPT ![r] = [IdleReq EXCEPT !.pc = "up_close", !.kind = "upload"]]
    /\ running' = 0

\* Variant: a new document starts a new conversation.
pp_chain_ClearsHistory(r) ==
    /\ running = r /\ req[r].pc = "pp_chain"
    /\ rag_chain' = create_rag_chain(retriever, rag_chain)
    /\ chat_history' = << >>
    /\ AwaitClose(r, 200, "success", "uploaded and processed successfully")
    /\ UNCHANGED <<vectorstore, retriever, vector_db, uploaded_pdfs,
                   current_pdf_path>>

\* self._create_rag_chain(), the success result, the MessageResponse
pp_chain(r) ==
    /\ running = r /\ req[r].pc = "pp_chain"
    /\ rag_chain' = create_rag_chain(retriever, rag_chain)
    /\ AwaitClose(r, 200, "success", "uploaded and processed successfully")
    /\ UNCHANGED <<vectorstore, retriever, chat_history, vector_db, uploaded_pdfs,
                   current_pdf_path>>

\* if result["status"] == "error": remove file_path, current_pdf_path = None,
\* raise HTTPException(500)
up_error(r) ==
    /\ running = r /\ req[r].pc = "up_error"
    /\ uploaded_pdfs' = uploaded_pdfs \ { req[r].name }
    /\ current_pdf_path' = NoneV
    /\ AwaitClose(r, 500, "error", "Error processing PDF")
    /\ UNCHANGED <<session, vector_db>>

\* except Exception: remove the file current_pdf_path names, if any;
\* current_pdf_path = None; raise HTTPException(500)
up_except(r) ==
    /\ running = r /\ req[r].pc = "up_except"
    /\ uploaded_pdfs' = IF current_pdf_path # NoneV
                        THEN uploaded_pdfs \ { Get(current_pdf_path) }
                        ELSE uploaded_pdfs
    /\ current_pdf_path' = NoneV
    /\ AwaitClose(r, 500, "error", "Error uploading PDF")
    /\ UNCHANGED <<session, vector_db>>

\* the coroutine resumes after file.close() and the response leaves
up_close(r) ==
    /\ running = 0 /\ req[r].pc = "up_close"
    /\ req' = [req EXCEPT ![r] = IdleReq]
    /\ UNCHANGED <<session, vector_db, uploaded_pdfs, current_pdf_path, running, last>>

\* ------------------------------------------- load_existing_vectorstore
\* Variant: any existing directory loads.
CanLoad_AnyDir(dir) == dir.exists

\* FAISS.load_local needs both files of a saved index.
CanLoad(dir) == dir.exists /\ dir.state = "index"

\* The error result of a load, with the call that finished before it.
LoadFailed(r, c, fault, message) ==
    /\ last' = [Result([c EXCEPT !.fault = fault], 0, "error", message)
                  EXCEPT !.after = Before(last)]
    /\ req' = [req EXCEPT ![r] = IdleReq]
    /\ UNCHANGED <<vectorstore, running>>

\* The existence check and self.vectorstore = FAISS.load_local(...): the
\* load raises on a directory without a valid index ("index_load"), or on
\* an error of reading a valid one ("read").
load_existing_vectorstore(r) ==
    /\ CanStart(r, "load")
    /\ LET c == Started("load", "", << >>, << >>)
       IN  IF ~vector_db.exists
           THEN LoadFailed(r, c, "", "No existing vector store found")
           ELSE \/ /\ ~CanLoad(vector_db)
                   /\ LoadFailed(r, c, "index_load", "Error loading vector store")
                \/ /\ CanLoad(vector_db)
                   /\ LoadFailed(r, c, "read", "Error loading vector store")
                \/ /\ CanLoad(vector_db)
                   /\ vectorstore' = Some(vector_db.index)
                   /\ req' = [req EXCEPT ![r] = [c EXCEPT !.pc = "ld_retriever"]]
                   /\ running' = r
                   /\ UNCHANGED last
    /\ UNCHANGED <<retriever, rag_chain, chat_history, vector_db, uploaded_pdfs,
                   current_pdf_path>>

\* self.retriever = self.vectorstore.as_retriever(...)
ld_retriever(r) ==
    /\ running = r /\ req[r].pc = "ld_retriever"
    /\ retriever' = as_retriever(vectorstore)
    /\ req' = [req EXCEPT ![r].pc = "ld_chain"]
    /\ UNCHANGED <<vectorstore, rag_chain, chat_history, vector_db, uploaded_pdfs,
                   current_pdf_path, running, last>>

\* A direct call of a method returns: its result dictionary.
Return(r, fault, status, message) ==
    /\ last' = Result([req[r] EXCEPT !.fault = fault], 0, status, message)
    /\ req' = [req EXCEPT ![r] = IdleReq]
    /\ running' = 0

\* self._create_rag_chain() and the success result; `last` is still the
\* call that finished before this load started.
ld_chain(r) ==
    /\ running = r /\ req[r].pc = "ld_chain"
    /\ rag_chain' = create_rag_chain(retriever, rag_chain)
    /\ last' = [Result(req[r], 0, "success", "Vector store loaded successfully")
                  EXCEPT !.after = Before(last)]
    /\ req' = [req EXCEPT ![r] = IdleReq]
    /\ running' = 0
    /\ UNCHANGED <<vectorstore, retriever, chat_history, vector_db, uploaded_pdfs,
                   current_pdf_path>>

\* --------------------------------------------------------- clear_session
\* self.chat_history.clear()
clear_session(r) ==
    /\ CanStart(r, "clear")
    /\ chat_history' = << >>
    /\ req' = [req EXCEPT ![r] = [Started("clear", "", << >>, << >>)
                                    EXCEPT !.pc = "cs_fields"]]
    /\ running' = r
    /\ UNCHANGED <<vectorstore, retriever, rag_chain, vector_db, uploaded_pdfs,
                   current_pdf_path, last>>

\* Variant: the index is not dropped.
cs_fields_KeepsIndex(r) ==
    /\ running = r /\ req[r].pc = "cs_fields"
    /\ retriever' = NoneV
    /\ rag_chain' = NoneV
    /\ req' = [req EXCEPT ![r].pc = "cs_storage"]
    /\ UNCHANGED <<vectorstore, chat_history, vector_db, uploaded_pdfs,
                   current_pdf_path, running, last>>

\* self.retriever = None; self.vectorstore = None; self.rag_chain = None
cs_fields(r) ==
    /\ running = r /\ req[r].pc = "cs_fields"
    /\ retriever' = NoneV
    /\ vectorstore' = NoneV
    /\ rag_chain' = NoneV
    /\ req' = [req EXCEPT ![r].pc = "cs_storage"]
    /\ UNCHANGED <<chat_history, vector_db, uploaded_pdfs, current_pdf_path,
                   running, last>>

\* What a failed shutil.rmtree can leave behind: everything, a partly
\* deleted index, or the emptied directory.
AfterFailedRmtree(dir) ==
    { dir, EmptyDir } \cup (IF dir.state = "empty" THEN { } ELSE { CorruptDir })

\* if os.path.exists(path): shutil.rmtree(path); os.makedirs(path)
\* and the result: success, or the error the except clause builds
cs_storage(r) ==
    /\ running = r /\ req[r].pc = "cs_storage"
    /\ IF ~vector_db.exists
       THEN /\ UNCHANGED vector_db
            /\ Return(r, "", "success", "Session cleared successfully")
       ELSE \/ /\ vector_db' = EmptyDir
               /\ Return(r, "", "success", "Session cleared successfully")
            \/ /\ vector_db' \in AfterFailedRmtree(vector_db)
               /\ Return(r, "rmtree", "error", "Error clearing session")
            \/ /\ vector_db' = AbsentDir
               /\ Return(r, "makedirs", "error", "Error clearing session")
    /\ UNCHANGED <<session, uploaded_pdfs, current_pdf_path>>

\* ------------------------------------------------------------------ spec
Next ==
    \E r \in Reqs :
        \/ Arrive(r)
        \/ ask_question_handler(r)
        \/ ask_check(r)
        \/ ask_invoke(r)
        \/ ask_add_user(r)
        \/ ask_add_ai(r)
        \/ get_chat_history(r)
        \/ get_status(r)
        \/ upload_pdf(r)
        \/ up_open(r)
        \/ up_copy(r)
        \/ pp_load(r)
        \/ pp_build(r)
        \/ pp_save(r)
        \/ pp_retriever(r)
        \/ pp_chain(r)
        \/ up_error(r)
        \/ up_except(r)
        \/ up_close(r)
        \/ load_existing_vectorstore(r)
        \/ ld_retriever(r)
        \/ ld_chain(r)
        \/ clear_session(r)
        \/ cs_fields(r)
        \/ cs_storage(r)

Spec == Init /\ [][Next]_vars

\* ----------------------------------------------------------------- types
TypeOK ==
    /\ running \in 0..NumReqs
    /\ Len(chat_history) <= 2 * MaxAsks
    /\ \A r \in Reqs : running = r <=> req[r].pc \notin { "idle", "ready", "up_close" }

\* ---------------------------------------------------------------- claims
\* No call is on the thread: `last` is the call that finished last and the
\* session is as that call left it.
Quiet == running = 0

\* The question reached RAGServiceModern.ask_question.
Asked(c) == c.kind = "ask" /\ ValidRequest(c.q) /\ ~EmptyQuestion(c.q)

\* C1: a question that reaches ask_question while the session has no pipeline
\* gets the error result 'Please upload and process a PDF first' (400 at the
\* API), the generation backend is not invoked and the history is unchanged.
C1_NoPipelineIsAnError ==
    (Asked(last) /\ last.c0 = NoneV) =>
        /\ last.status = "error"
        /\ last.code = 400
        /\ last.message = "Please upload and process a PDF first"
        /\ "llm" \notin last.touched
        /\ Quiet => chat_history = last.h0

\* C1, its case: an ask in a session that a reset left without a pipeline.
C1_Witness ==
    /\ Quiet /\ Asked(last) /\ last.c0 = NoneV
    /\ last.message = "Please upload and process a PDF first"
    /\ vector_db = EmptyDir /\ uploaded_pdfs # { }

\* C2: an empty or whitespace-only question is answered with an
\* invalid-question error in either phase, before the retriever, the
\* generation backend or the history is touched; the history is unchanged.
C2_EmptyQuestionRejected ==
    (last.kind = "ask" /\ (last.q = << >> \/ Strip(last.q) = << >>)) =>
        /\ last.status = "error"
        /\ last.code \in { 400, 422 }
        /\ last.message \in { "Question cannot be empty", "string_too_short" }
        /\ last.touched = { }
        /\ Quiet => chat_history = last.h0

\* C2, its case: a whitespace-only question in a READY session with turns.
C2_Witness ==
    /\ Quiet /\ last.kind = "ask" /\ last.q = <<" ">>
    /\ last.c0 # NoneV /\ last.h0 # << >>
    /\ last.code = 400

\* C3: a successful ask(q) with answer a leaves the history it found with
\* (human, q) and (ai, a) appended, in that order.
C3_SuccessAppendsPair ==
    (Quiet /\ last.kind = "ask" /\ last.status = "success") =>
        chat_history = last.h0 \o << HumanMessage(last.q), AIMessage(last.answer) >>

\* C3, its case: a successful ask on a history that already has turns.
C3_Witness ==
    /\ Quiet /\ last.kind = "ask" /\ last.status = "success"
    /\ last.h0 # << >> /\ Len(chat_history) = Len(last.h0) + 2
    /\ last.answer \in Answers

\* C4: whenever no call is running, the pipeline exists exactly when the
\* index exists.
C4_PipelineIffIndex ==
    Quiet => ((rag_chain # NoneV) <=> (vectorstore # NoneV))

EmptyStatus == [vectorstore_loaded |-> FALSE, retriever_ready |-> FALSE,
                qa_chain_ready |-> FALSE, chat_history_length |-> 0]

\* C5: right after a reset, whatever it returned, the status is: no index,
\* no retriever, no pipeline, history length 0.
C5_ResetThenStatusIsEmpty ==
    /\ (Quiet /\ last.kind = "clear") => Status = EmptyStatus
    /\ (last.kind = "status" /\ last.after.kind = "clear") => last.report = <<EmptyStatus>>

\* C5, its case: a status read after a reset of a READY session with turns
\* whose storage removal failed.
C5_Witness ==
    /\ last.kind = "status"
    /\ last.after = [kind |-> "clear", status |-> "error", ready |-> TRUE, turns |-> 2,
                     doc |-> << >>]
    /\ last.report = <<EmptyStatus>>
    /\ vector_db # EmptyDir

\* The phase (a pipeline or none) differs from the one the last call found.
PhaseChanged == (last.c0 = NoneV) # (rag_chain = NoneV)

Succeeded(kinds) == last.kind \in kinds /\ last.status = "success"

\* The phase rules with `makers` as the calls whose success makes READY.
PhaseRules(makers) ==
    /\ (Quiet /\ PhaseChanged) =>
          \/ Succeeded(makers) /\ rag_chain # NoneV
          \/ last.kind = "clear" /\ rag_chain = NoneV
    /\ (Quiet /\ Succeeded(makers)) => rag_chain # NoneV
    /\ (Quiet /\ last.kind = "clear") => rag_chain = NoneV
    /\ Succeeded({ "ask" }) => last.c0 # NoneV

\* C6 as stated: the phase changes only by a successful ingest (to READY) and
\* by a reset (to EMPTY); an ask succeeds only in READY.
C6_Original == PhaseRules({ "upload" })

\* C6 amended: the phase changes only by a successful ingest or a successful
\* load_existing_vectorstore (to READY) and by a reset (to EMPTY); a failed
\* ingest or load, an ask, a status or history read leave it; an ask succeeds
\* only in READY.
C6_PhaseChanges == PhaseRules({ "upload", "load" })

\* C6, its case: a load made an EMPTY session READY.
C6_Witness ==
    /\ Quiet /\ Succeeded({ "load" })
    /\ last.c0 = NoneV /\ rag_chain # NoneV

IsPairs(h) ==
    /\ Len(h) % 2 = 0
    /\ \A i \in 1..Len(h) : h[i].type = IF i % 2 = 1 THEN "human" ELSE "ai"

Front(h) == SubSeq(h, 1, Len(h) - 1)

\* C7: the history is a sequence of human/ai pairs, but for the one ask that
\* is between its two appends: then its own human turn is the last turn and
\* complete pairs come before it.
C7_PairsAdjacent ==
    /\ (\A r \in Reqs : req[r].pc # "ask_add_ai") => IsPairs(chat_history)
    /\ \A r \in Reqs : req[r].pc = "ask_add_ai" =>
          /\ chat_history # << >>
          /\ chat_history[Len(chat_history)] = HumanMessage(req[r].q)
          /\ IsPairs(Front(chat_history))

\* C7, its case: two asks in flight, one between its appends after an
\* earlier pair, the other waiting.
C7_Witness ==
    \E r1, r2 \in Reqs :
        /\ r1 # r2
        /\ req[r1].pc = "ask_add_ai" /\ Len(chat_history) = 3
        /\ req[r2].pc = "ready" /\ req[r2].kind = "ask"

\* The call works on the session.
InCall(r) == req[r].pc \notin { "idle", "ready", "up_close" }

\* History and pipeline as call r itself has left them so far.
OwnView(r) ==
    /\ chat_history = CASE req[r].kind = "clear" -> << >>
                        [] req[r].pc = "ask_add_ai" -> Append(req[r].h0, HumanMessage(req[r].q))
                        [] OTHER -> req[r].h0
    /\ rag_chain = IF req[r].pc = "cs_storage" THEN NoneV ELSE req[r].c0

C9_IngestKeepsHistory ==
    /\ \A r \in Reqs : (InCall(r) /\ req[r].kind = "upload") => chat_history = req[r].h0
    /\ (Quiet /\ last.kind = "upload") => chat_history = last.h0
    /\ \A r \in Reqs : req[r].prompt # NoneV => Get(req[r].prompt).chat_history = req[r].h0

\* C9, its case: a successful re-ingest of another document in a session
\* with turns.
C9_Witness ==
    /\ Quiet /\ Succeeded({ "upload" })
    /\ last.c0 # NoneV /\ rag_chain # last.c0
    /\ last.h0 # << >> /\ chat_history = last.h0

\* C10: every reset ends in the same state, the empty session over an
\* existing storage directory without a persisted index (so that a second
\* reset changes nothing).
C10_ResetIdempotent ==
    (Quiet /\ last.kind = "clear") => (Status = EmptyStatus /\ vector_db = EmptyDir)

\* C11: an upload that fails (500) at the open, the copy or the processing
\* leaves no file of its own behind, and removes no file of an earlier
\* upload: when it wrote a file, that file is gone; when it wrote none, the
\* files are those it found.
C11_FailedUploadCleansUp ==
    (Quiet /\ last.kind = "upload" /\ last.code = 500) =>
        IF "file" \in last.touched
        THEN last.name \notin uploaded_pdfs
        ELSE uploaded_pdfs = last.f0

\* The steps of process_pdf that can raise.
IngestFaults == { "pdf_load", "build", "persist" }

\* The steps of the chain invoked by ask_question that can raise.
AnswerFaults == { "retrieval", "generation" }

\* C12: an empty or whitespace-only question and a question asked with no
\* document get 400; a failed ingest and a retrieval or generation failure
\* during an ask get 500.
C12_StatusCodes ==
    /\ (last.kind = "ask" /\ (last.q = << >> \/ Strip(last.q) = << >>)) => last.code = 400
    /\ (Asked(last) /\ last.c0 = NoneV) => last.code = 400
    /\ (last.kind = "upload" /\ last.fault \in IngestFaults) => last.code = 500
    /\ (last.kind = "ask" /\ last.fault \in AnswerFaults) => last.code = 500

\* The failures inside the pipeline operations.
PipelineFaults ==
    IngestFaults \cup AnswerFaults \cup { "index_load", "read", "rmtree", "makedirs" }

\* The message of the error result each method builds in its except clause.
ErrorMessage(kind) ==
    CASE kind = "upload" -> "Error processing PDF"
      [] kind = "load" -> "Error loading vector store"
      [] kind = "ask" -> "Error processing question"
      [] kind = "clear" -> "Error clearing session"
      [] OTHER -> ""

\* C13: every failure inside process_pdf, load_existing_vectorstore,
\* ask_question and clear_session comes back as the error result of that
\* method (status and message); none reaches the caller as an exception (the
\* upload handler takes its branch for an error result, not its except
\* clause).
C13_FailuresAreResults ==
    /\ \A r \in Reqs : req[r].fault \in IngestFaults => req[r].pc = "up_error"
    /\ last.fault \in PipelineFaults =>
          /\ last.status = "error"
          /\ last.message = ErrorMessage(last.kind)

\* C13, its case: save_local raised inside process_pdf during a re-ingest.
C13_Witness ==
    /\ Quiet /\ last.kind = "upload" /\ last.fault = "persist"
    /\ last.c0 # NoneV
    /\ last.message = "Error processing PDF" /\ last.code = 500

\* The active index, retriever and pipeline are those of document d.
ActiveIs(d) ==
    /\ vectorstore = Some(d)
    /\ retriever = Some(d)
    /\ rag_chain = Some([retriever |-> d])

NoValidIndex(dir) == ~dir.exists \/ dir.state # "index"

\* C15: a load from a storage directory without a valid persisted index
\* returns an error result and leaves index, retriever, pipeline, history
\* (and the directory) as it found them.
C15_LoadWithoutIndexFails ==
    (Quiet /\ last.kind = "load" /\ NoValidIndex(vector_db)) =>
        /\ last.status = "error"
        /\ last.message \in { "No existing vector store found",
                              "Error loading vector store" }
        /\ <<vectorstore, retriever, vector_db>> = last.s0
        /\ rag_chain = last.c0
        /\ chat_history = last.h0

\* C15, its case: a load from the directory a reset has emptied.
C15_Witness ==
    /\ Quiet /\ last.kind = "load" /\ last.status = "error"
    /\ last.after.kind = "clear" /\ last.after.ready
    /\ vector_db = EmptyDir /\ vectorstore = NoneV

\* C16: an ask in which the retrieval or the generation raises returns the
\* error result and leaves the session as it found it: no turn is appended
\* and the pipeline is the same one (READY), so that the next ask is served.
C16_FailedAskKeepsSession ==
    (Quiet /\ last.kind = "ask" /\ last.fault \in AnswerFaults) =>
        /\ last.status = "error"
        /\ last.message = "Error processing question"
        /\ chat_history = last.h0
        /\ last.c0 # NoneV /\ rag_chain = last.c0
        /\ ~NoPipeline

\* C16, its case: the generation backend failed in a session with turns.
C16_Witness ==
    /\ Quiet /\ last.kind = "ask" /\ last.fault = "generation"
    /\ last.h0 # << >> /\ chat_history = last.h0
    /\ "llm" \in last.touched

\* C17: an ingest that fails inside process_pdf (PDF load, index build,
\* persist) leaves the active index, the retriever, the storage directory
\* and the pipeline as it found them.
C17_FailedIngestKeepsState ==
    (Quiet /\ last.kind = "upload" /\ last.fault \in IngestFaults) =>
        /\ <<vectorstore, retriever, vector_db>> = last.s0
        /\ rag_chain = last.c0

EmptyIndex == << >>

\* C19: an ingest of a document that yields no chunk returns the error
\* result and changes neither pipeline nor storage; no index, retriever,
\* pipeline or persisted index is ever one without chunks.
C19_EmptyDocumentFails ==
    /\ (Quiet /\ last.kind = "upload" /\ last.doc = << >> /\ last.fault # "") =>
          /\ last.status = "error" /\ last.code = 500
          /\ rag_chain = last.c0
    /\ (last.kind = "upload" /\ EndsWithPdf(last.name) /\ last.doc = << >>) =>
          last.status = "error"
    /\ vectorstore # Some(EmptyIndex)
    /\ retriever # Some(EmptyIndex)
    /\ rag_chain # Some([retriever |-> EmptyIndex])
    /\ vector_db # PersistedDir(EmptyIndex)

\* C19, its case: the index build raised on the empty document in a READY
\* session.
C19_Witness ==
    /\ Quiet /\ last.kind = "upload" /\ last.doc = << >>
    /\ last.fault = "build" /\ last.message = "Error processing PDF"
    /\ last.c0 # NoneV /\ rag_chain = last.c0

\* The prompt of call c: its history is the history the call found, made of
\* whole turns, and the question is the call's own.
PromptOf(c) ==
    c.prompt # NoneV =>
        /\ Get(c.prompt).chat_history = c.h0
        /\ IsPairs(Get(c.prompt).chat_history)
        /\ Get(c.prompt).question = c.q

\* C20: the history in the prompt of an ask is the history as the ask found
\* it: the pairs of the earlier successful asks since the last reset, in
\* order, without the current question; the turns of the ask are appended
\* to it only afterwards.
C20_PromptHistory ==
    /\ \A r \in Reqs : PromptOf(req[r])
    /\ PromptOf(last)
    /\ (Quiet /\ Succeeded({ "ask" })) =>
          /\ last.prompt # NoneV
          /\ chat_history = Get(last.prompt).chat_history
                               \o << HumanMessage(last.q), AIMessage(last.answer) >>
    /\ (Quiet /\ last.kind = "clear") => chat_history = << >>

\* C20, its case: the second successful ask: its prompt carried the one
\* earlier pair.
C20_Witness ==
    /\ Quiet /\ Succeeded({ "ask" })
    /\ last.prompt # NoneV
    /\ Len(Get(last.prompt).chat_history) = 2
    /\ Len(chat_history) = 4

====
